---- MODULE Spec2Model ----
(***************************************************************************)
(* Item identification and lead screening of froosterton/reddih            *)
(* (src/main.py), modelled as a state machine.                             *)
(*                                                                         *)
(* Text is a sequence of characters; a character is a one-character string *)
(* ("a", "A", "'", " ", "\n"), and the two curly single quotes U+2019 and  *)
(* U+2018 are the characters "RSQUO" and "LSQUO".  A dict is a sequence of *)
(* <<key, value>> pairs in insertion order, as a Python dict iterates.     *)
(* item_data is the record [name, acronym, rap, value] for the catalog     *)
(* tuple's item_data[0], [1], [2], [3].                                    *)
(***************************************************************************)
EXTENDS Integers, Sequences, FiniteSets, TLC

(***************************************************************************)
(* Python str primitives                                                   *)
(***************************************************************************)
UPPERCASE == <<"A","B","C","D","E","F","G","H","I","J","K","L","M",
               "N","O","P","Q","R","S","T","U","V","W","X","Y","Z">>

LOWERCASE == <<"a","b","c","d","e","f","g","h","i","j","k","l","m",
               "n","o","p","q","r","s","t","u","v","w","x","y","z">>

DIGITS == {"0","1","2","3","4","5","6","7","8","9"}

\* str.isspace among the ASCII characters, the whitespace of str.strip, str.split and
\* \s: space, U+0009 to U+000D (tab, line feed, vertical tab, form feed, carriage
\* return) and the separators U+001C to U+001F
IsSpace(c) == c \in {" ", "\t", "\n", "", "\f", "\r", "", "", "", ""}

LowerChar(c) ==
    IF \E i \in 1..26 : UPPERCASE[i] = c
    THEN LOWERCASE[CHOOSE i \in 1..26 : UPPERCASE[i] = c]
    ELSE c

UpperChar(c) ==
    IF \E i \in 1..26 : LOWERCASE[i] = c
    THEN UPPERCASE[CHOOSE i \in 1..26 : LOWERCASE[i] = c]
    ELSE c

\* str.lower()
Lower(s) == [i \in 1..Len(s) |-> LowerChar(s[i])]

\* str.upper()
Upper(s) == [i \in 1..Len(s) |-> UpperChar(s[i])]

\* str.strip(): drop leading and trailing whitespace
Strip(s) ==
    LET keep == {i \in 1..Len(s) : ~IsSpace(s[i])}
    IN  IF keep = {} THEN <<>>
        ELSE LET lo == CHOOSE i \in keep : \A j \in keep : i <= j
                 hi == CHOOSE i \in keep : \A j \in keep : j <= i
             IN  SubSeq(s, lo, hi)

\* str.startswith(prefix)
StartsWith(s, prefix) ==
    /\ Len(prefix) <= Len(s)
    /\ SubSeq(s, 1, Len(prefix)) = prefix

\* sub in s
Contains(sub, s) ==
    \E i \in 0..(Len(s) - Len(sub)) : SubSeq(s, i + 1, i + Len(sub)) = sub

\* str.replace(old, new): leftmost non-overlapping occurrences, old non-empty
RECURSIVE Replace(_, _, _)
Replace(s, old, new) ==
    IF Len(s) < Len(old) THEN s
    ELSE IF SubSeq(s, 1, Len(old)) = old
         THEN new \o Replace(SubSeq(s, Len(old) + 1, Len(s)), old, new)
         ELSE <<s[1]>> \o Replace(Tail(s), old, new)

\* str.split(): the maximal runs of non-whitespace characters, in order
RECURSIVE SplitFrom(_, _, _)
SplitFrom(s, i, cur) ==
    IF i > Len(s) THEN (IF cur = <<>> THEN <<>> ELSE <<cur>>)
    ELSE IF IsSpace(s[i])
         THEN (IF cur = <<>> THEN <<>> ELSE <<cur>>) \o SplitFrom(s, i + 1, <<>>)
         ELSE SplitFrom(s, i + 1, Append(cur, s[i]))

Split(s) == SplitFrom(s, 1, <<>>)

\* str.split(sep) for a one-character sep: every piece, empty ones included
RECURSIVE SplitSepFrom(_, _, _, _)
SplitSepFrom(s, sep, i, cur) ==
    IF i > Len(s) THEN <<cur>>
    ELSE IF s[i] = sep
         THEN <<cur>> \o SplitSepFrom(s, sep, i + 1, <<>>)
         ELSE SplitSepFrom(s, sep, i + 1, Append(cur, s[i]))

SplitSep(s, sep) == SplitSepFrom(s, sep, 1, <<>>)

\* str.split(":", 1)[1] of a string that holds a ":": what follows the first one
AfterColon(s) ==
    LET i == CHOOSE k \in 1..Len(s) : s[k] = ":" /\ \A j \in 1..(k - 1) : s[j] # ":"
    IN  SubSeq(s, i + 1, Len(s))

\* set(seq)
Range(seq) == {seq[i] : i \in 1..Len(seq)}

\* re.sub(r"[^a-z0-9\s]", " ", s)
SubNonAlnum(s) ==
    [i \in 1..Len(s) |->
        IF s[i] \in Range(LOWERCASE) \/ s[i] \in DIGITS \/ IsSpace(s[i])
        THEN s[i] ELSE " "]

\* re.sub(r"\s+", " ", s)
RECURSIVE CollapseSpace(_)
CollapseSpace(s) ==
    IF s = <<>> THEN <<>>
    ELSE IF IsSpace(s[1])
         THEN IF Len(s) >= 2 /\ IsSpace(s[2])
              THEN CollapseSpace(Tail(s))
              ELSE <<" ">> \o CollapseSpace(Tail(s))
         ELSE <<s[1]>> \o CollapseSpace(Tail(s))

(***************************************************************************)
(* normalize_name                                                          *)
(***************************************************************************)
\* mutant: the name is not lowercased
normalize_name_NoLower(name) ==
    LET s1 == Strip(name)
        s2 == Replace(Replace(s1, <<"RSQUO">>, <<"'">>), <<"LSQUO">>, <<"'">>)
        s3 == Replace(Replace(s2, <<"'", "s">>, <<"s">>), <<"'", "s">>, <<"s">>)
        s4 == SubNonAlnum(s3)
    IN  Strip(CollapseSpace(s4))

\* mutant: the possessive is not collapsed
normalize_name_NoPossessive(name) ==
    LET s1 == Strip(Lower(name))
        s2 == Replace(Replace(s1, <<"RSQUO">>, <<"'">>), <<"LSQUO">>, <<"'">>)
        s4 == SubNonAlnum(s2)
    IN  Strip(CollapseSpace(s4))

normalize_name(name) ==
    LET s1 == Strip(Lower(name))
        s2 == Replace(Replace(s1, <<"RSQUO">>, <<"'">>), <<"LSQUO">>, <<"'">>)
        s3 == Replace(Replace(s2, <<"'", "s">>, <<"s">>), <<"'", "s">>, <<"s">>)
        s4 == SubNonAlnum(s3)
    IN  Strip(CollapseSpace(s4))

VARIABLES
    MIN_VALUE_THRESHOLD,  \* main.py:15, the module global read from the environment
    items_db,             \* the catalog snapshot: a sequence of <<item_id, item_data>>
    name_lookup,          \* build_lookup_tables: normalized name -> (item_id, item_data)
    acronym_lookup,       \* build_lookup_tables: acronym -> (item_id, item_data)
    title, body,          \* screen_text_post: its arguments
    pc,                   \* screen_text_post: START, PASS1, PASS2, LEAD, NOT_LEAD, RAISED
    above, below,         \* screen_text_post: the two lists PASS1 got from the scan
    classifier_calls,     \* screen_text_post: calls of client.models.generate_content
    response,             \* screen_text_post: how the classifier call ended
    result,               \* screen_text_post: the returned (is_lead, reason, matched_items)
    text,                 \* find_mentioned_items: its argument
    scan_pc,              \* find_mentioned_items: idle, names, acronyms, sort, done
    scan,                 \* find_mentioned_items: its locals above, below, seen_ids
    detected_items,       \* match_items_rolimons_only: its argument
    batch_pc,             \* match_items_rolimons_only: idle, loop, done
    results,              \* match_items_rolimons_only: the returned list
    detected,             \* match_single_item: its argument detected_name
    match_pc,             \* match_single_item: idle, name, acronym, prefix, done
    matched,              \* match_single_item: the returned (item_id, item_data) or None
    norm_in,              \* normalize_name: its argument name
    norm_pc,              \* normalize_name: idle, call, once, twice
    norm_out,             \* normalize_name: the returned string
    norm_again,           \* normalize_name: what it returns for its own result
    once, scan_last,      \* run_monitor: its arguments
    mon_pc,               \* run_monitor: idle, start, list, posts, top, refresh, exited, raised
    mon_phase,            \* run_monitor: the loop it is in: scan, seed, poll
    sub_i,                \* run_monitor: index of sub_name in SUBREDDIT_NAMES
    feed,                 \* run_monitor: the posts of subreddit.new(...) still to come
    seen_post_ids,        \* run_monitor: the set seen_post_ids
    cycles,               \* run_monitor: passes of the poll loop begun
    processed,            \* the post ids handed to _process_post, in call order
    alerts,               \* the post ids a Discord alert went out for, in order
    fetched               \* the snapshots fetch_item_database has returned

vars == <<MIN_VALUE_THRESHOLD, items_db, name_lookup, acronym_lookup, title, body, pc,
          above, below, classifier_calls, response, result, text, scan_pc, scan,
          detected_items, batch_pc, results, detected, match_pc, matched,
          norm_in, norm_pc, norm_out, norm_again, once, scan_last, mon_pc, mon_phase,
          sub_i, feed, seen_post_ids, cycles, processed, alerts, fetched>>

\* Python's None (falsy; a match is a 2-tuple, a result a 3-tuple)
None == <<>>

\* what the caller gets when an exception leaves a function
RAISED == <<"RAISED">>

\* a JSON null (Python None) where the catalog should hold a str
Null == <<"NULL">>

(***************************************************************************)
(* dict: a sequence of <<key, value>> pairs in insertion order             *)
(***************************************************************************)
DictHas(d, k) == \E i \in 1..Len(d) : d[i][1] = k

DictGet(d, k) == d[CHOOSE i \in 1..Len(d) : d[i][1] = k][2]

\* d[k] = v: an existing key keeps its place and takes the new value
DictPut(d, k, v) ==
    IF DictHas(d, k)
    THEN [i \in 1..Len(d) |-> IF d[i][1] = k THEN <<k, v>> ELSE d[i]]
    ELSE Append(d, <<k, v>>)

(***************************************************************************)
(* build_lookup_tables                                                     *)
(***************************************************************************)
RECURSIVE BuildLoop(_, _, _, _)
BuildLoop(db, i, names, acronyms) ==
    IF i > Len(db) THEN <<names, acronyms>>
    ELSE LET item_id == db[i][1]
             item_data == db[i][2]
             norm == normalize_name(item_data.name)
             acr == Lower(Strip(item_data.acronym))
         IN  IF item_data.name = Null
             THEN RAISED    \* normalize_name(None): None.lower() raises AttributeError
             ELSE IF item_data.acronym = Null
             THEN RAISED    \* None.strip() raises AttributeError
             ELSE BuildLoop(db, i + 1,
                            DictPut(names, norm, <<item_id, item_data>>),
                            IF acr # <<>>
                            THEN DictPut(acronyms, acr, <<item_id, item_data>>)
                            ELSE acronyms)

build_lookup_tables(db) == BuildLoop(db, 1, <<>>, <<>>)

\* mutant: the refresh builds into the maps in use
RECURSIVE RefreshTables_InPlace(_, _, _)
RefreshTables_InPlace(db, names, acronyms) ==
    IF db = <<>> THEN <<names, acronyms>>
    ELSE LET item_id == db[1][1]
             item_data == db[1][2]
             put == DictPut(names, normalize_name(item_data.name), <<item_id, item_data>>)
             acr == Lower(Strip(item_data.acronym))
         IN  IF item_data.name = Null THEN <<names, acronyms>>
             ELSE IF item_data.acronym = Null THEN <<put, acronyms>>
             ELSE RefreshTables_InPlace(Tail(db), put,
                      IF acr # <<>> THEN DictPut(acronyms, acr, <<item_id, item_data>>)
                      ELSE acronyms)

\* name_lookup, acronym_lookup = build_lookup_tables(items_db) inside try/except:
\* the pair is assigned only when the build returns
RefreshTables(db, names, acronyms) ==
    IF build_lookup_tables(db) = RAISED
    THEN <<names, acronyms>>
    ELSE build_lookup_tables(db)

\* item_data[3] if item_data[3] != -1 else item_data[2]
rolimons_value(item_data) ==
    IF item_data.value # -1 THEN item_data.value ELSE item_data.rap

(***************************************************************************)
(* match_single_item                                                       *)
(***************************************************************************)
\* mutant: the loop keeps the first name that starts with the detected one
RECURSIVE PrefixLoop_FirstMatch(_, _, _, _, _)
PrefixLoop_FirstMatch(det_norm, names, i, best_match, best_len) ==
    IF i > Len(names) THEN best_match
    ELSE LET db_norm == names[i][1]
         IN  IF StartsWith(db_norm, det_norm) /\ best_match = None
             THEN PrefixLoop_FirstMatch(det_norm, names, i + 1, names[i][2], Len(db_norm))
             ELSE PrefixLoop_FirstMatch(det_norm, names, i + 1, best_match, best_len)

RECURSIVE PrefixLoop(_, _, _, _, _)
PrefixLoop(det_norm, names, i, best_match, best_len) ==
    IF i > Len(names) THEN best_match
    ELSE LET db_norm == names[i][1]
         IN  IF StartsWith(db_norm, det_norm) /\ Len(db_norm) > best_len
             THEN PrefixLoop(det_norm, names, i + 1, names[i][2], Len(db_norm))
             ELSE PrefixLoop(det_norm, names, i + 1, best_match, best_len)

\* mutant: the gate counts words only
PrefixGate_WordsOnly(det_norm) == Len(Split(det_norm)) >= 2

PrefixGate(det_norm) == Len(Split(det_norm)) >= 2 /\ Len(det_norm) >= 8

match_single_item(detected_name, names, acronyms) ==
    LET det_lower == Lower(Strip(detected_name))
        det_norm == normalize_name(detected_name)
    IN  IF DictHas(names, det_norm) THEN DictGet(names, det_norm)
        ELSE IF DictHas(acronyms, det_lower) THEN DictGet(acronyms, det_lower)
        ELSE IF PrefixGate(det_norm)
             THEN PrefixLoop(det_norm, names, 1, None, 0)
             ELSE None

(***************************************************************************)
(* list.sort(key=lambda x: x["value"], reverse=True): stable, descending   *)
(***************************************************************************)
\* mutant: an element goes in front of the elements of equal value
SortInsert_TiesFirst(sorted, m) ==
    LET k == Cardinality({j \in 1..Len(sorted) : sorted[j].value > m.value})
    IN  SubSeq(sorted, 1, k) \o <<m>> \o SubSeq(sorted, k + 1, Len(sorted))

\* an element goes behind every element of greater or equal value
SortInsert(sorted, m) ==
    LET k == Cardinality({j \in 1..Len(sorted) : sorted[j].value >= m.value})
    IN  SubSeq(sorted, 1, k) \o <<m>> \o SubSeq(sorted, k + 1, Len(sorted))

RECURSIVE SortLoop(_, _, _)
SortLoop(list, i, sorted) ==
    IF i > Len(list) THEN sorted
    ELSE SortLoop(list, i + 1, SortInsert(sorted, list[i]))

SortByValueDesc(list) == SortLoop(list, 1, <<>>)

(***************************************************************************)
(* match_items_rolimons_only                                               *)
(***************************************************************************)
\* mutant: the batch does not look at seen_ids
NewMatch_AnyMatch(match, seen_ids) == match # None

\* match and match[0] not in seen_ids
NewMatch(match, seen_ids) == match # None /\ match[1] \notin seen_ids

RECURSIVE BatchLoop(_, _, _, _, _, _)
BatchLoop(dets, names, acronyms, i, res, seen) ==
    IF i > Len(dets) THEN res
    ELSE LET det_name == dets[i].name
             match == match_single_item(det_name, names, acronyms)
         IN  IF NewMatch(match, seen)
             THEN LET item_id == match[1]
                      item_data == match[2]
                      value == rolimons_value(item_data)
                  IN  IF value < MIN_VALUE_THRESHOLD
                      THEN BatchLoop(dets, names, acronyms, i + 1, res, seen)
                      ELSE BatchLoop(dets, names, acronyms, i + 1,
                                     Append(res, [id |-> item_id,
                                                  name |-> item_data.name,
                                                  acronym |-> item_data.acronym,
                                                  value |-> value,
                                                  detected_as |-> det_name]),
                                     seen \cup {item_id})
             ELSE BatchLoop(dets, names, acronyms, i + 1, res, seen)

match_items_rolimons_only(dets, names, acronyms) ==
    SortByValueDesc(BatchLoop(dets, names, acronyms, 1, <<>>, {}))

(***************************************************************************)
(* find_mentioned_items                                                    *)
(***************************************************************************)
ACRONYM_BLACKLIST == {
    <<"m","m">>, <<"d","c">>, <<"w">>, <<"l">>, <<"f">>, <<"o","p">>,
    <<"p","c">>, <<"n","v","m">>, <<"p","m">>, <<"d","m">>, <<"r","n">>, <<"g","g">>,
    <<"b","b">>, <<"g","l">>, <<"t","y">>, <<"n","p">>, <<"l","f">>, <<"f","t">>,
    <<"n","f","t">>, <<"i","d">>, <<"d","a">>, <<"p","f">>, <<"f","b">>, <<"s","c">>,
    <<"r","t">>, <<"e","p">>, <<"h","b">>, <<"s","b">>, <<"c","s">>, <<"c","i">>,
    <<"a","a">>, <<"b","t">>, <<"d","h">>, <<"r","s">>, <<"g","w">>, <<"a","c">>,
    <<"i","v">>, <<"e","s">>, <<"s","s">>, <<"b","m">>, <<"s","e">>, <<"t","v">>}

\* the locals above, below, seen_ids at entry
ScanLocals == [above |-> <<>>, below |-> <<>>, seen_ids |-> {}]

\* mutant: the threshold test of the scan is strict
AddMentioned_StrictAbove(st, item_id, item_data) ==
    LET value == rolimons_value(item_data)
        item == [id |-> item_id, name |-> item_data.name,
                 acronym |-> item_data.acronym, value |-> value]
    IN  [above |-> IF value > MIN_VALUE_THRESHOLD
                   THEN Append(st.above, item) ELSE st.above,
         below |-> IF ~(value > MIN_VALUE_THRESHOLD) /\ value > 0
                   THEN Append(st.below, item) ELSE st.below,
         seen_ids |-> st.seen_ids \cup {item_id}]

\* build the item dict, append it to its bucket, mark the id seen
AddMentioned(st, item_id, item_data) ==
    LET value == rolimons_value(item_data)
        item == [id |-> item_id, name |-> item_data.name,
                 acronym |-> item_data.acronym, value |-> value]
    IN  [above |-> IF value >= MIN_VALUE_THRESHOLD
                   THEN Append(st.above, item) ELSE st.above,
         below |-> IF ~(value >= MIN_VALUE_THRESHOLD) /\ value > 0
                   THEN Append(st.below, item) ELSE st.below,
         seen_ids |-> st.seen_ids \cup {item_id}]

\* mutant: the scan does not look at seen_ids
AlreadySeen_Never(item_id, seen_ids) == FALSE

\* if item_id in seen_ids: continue
AlreadySeen(item_id, seen_ids) == item_id \in seen_ids

\* the loop over name_lookup.items()
RECURSIVE NameScanLoop(_, _, _, _)
NameScanLoop(text_norm, names, i, st) ==
    IF i > Len(names) THEN st
    ELSE LET norm_name == names[i][1]
             item_id == names[i][2][1]
             item_data == names[i][2][2]
         IN  IF AlreadySeen(item_id, st.seen_ids)
             THEN NameScanLoop(text_norm, names, i + 1, st)
             ELSE IF Len(Split(norm_name)) < 2
             THEN NameScanLoop(text_norm, names, i + 1, st)
             ELSE IF Contains(norm_name, text_norm)
             THEN NameScanLoop(text_norm, names, i + 1,
                               AddMentioned(st, item_id, item_data))
             ELSE NameScanLoop(text_norm, names, i + 1, st)

\* mutant: short acronyms are matched whatever their case in the text
AcronymAdmitted_AnyCase(acr, txt) ==
    LET words_in_text == Range(Split(Lower(txt)))
    IN  /\ ~(Len(acr) < 2)
        /\ acr \notin ACRONYM_BLACKLIST
        /\ acr \in words_in_text

\* the admission test of one acronym of the loop over acronym_lookup.items()
AcronymAdmitted(acr, txt) ==
    LET words_in_text == Range(Split(Lower(txt)))
        original_words == Range(Split(txt))
    IN  /\ ~(Len(acr) < 2)
        /\ acr \notin ACRONYM_BLACKLIST
        /\ (Len(acr) <= 3 => Upper(acr) \in original_words)
        /\ acr \in words_in_text

\* the loop over acronym_lookup.items()
RECURSIVE AcronymScanLoop(_, _, _, _)
AcronymScanLoop(txt, acronyms, i, st) ==
    IF i > Len(acronyms) THEN st
    ELSE LET acr == acronyms[i][1]
             item_id == acronyms[i][2][1]
             item_data == acronyms[i][2][2]
         IN  IF AlreadySeen(item_id, st.seen_ids)
             THEN AcronymScanLoop(txt, acronyms, i + 1, st)
             ELSE IF AcronymAdmitted(acr, txt)
             THEN AcronymScanLoop(txt, acronyms, i + 1,
                                  AddMentioned(st, item_id, item_data))
             ELSE AcronymScanLoop(txt, acronyms, i + 1, st)

\* above.sort(...); below.sort(...)
SortBuckets(st) ==
    [above |-> SortByValueDesc(st.above),
     below |-> SortByValueDesc(st.below),
     seen_ids |-> st.seen_ids]

\* returns <<above, below>>
find_mentioned_items(txt, names, acronyms) ==
    LET st == SortBuckets(
                  AcronymScanLoop(txt, acronyms, 1,
                      NameScanLoop(normalize_name(txt), names, 1, ScanLocals)))
    IN  <<st.above, st.below>>

(***************************************************************************)
(* f-string pieces of screen_text_post                                     *)
(***************************************************************************)
DigitChar(d) == <<"0","1","2","3","4","5","6","7","8","9">>[d + 1]

RECURSIVE DigitsOf(_)
DigitsOf(n) == IF n < 10 THEN <<DigitChar(n)>> ELSE Append(DigitsOf(n \div 10), DigitChar(n % 10))

\* f"{n:,}": decimal digits in groups of three
FormatThousands(n) ==
    LET ds == DigitsOf(IF n < 0 THEN -n ELSE n)
        RECURSIVE Group(_)
        Group(i) ==
            IF i > Len(ds) THEN <<>>
            ELSE (IF i > 1 /\ (Len(ds) - i + 1) % 3 = 0 THEN <<",">> ELSE <<>>)
                 \o <<ds[i]>> \o Group(i + 1)
    IN  (IF n < 0 THEN <<"-">> ELSE <<>>) \o Group(1)

\* sep.join(parts)
RECURSIVE Join(_, _)
Join(parts, sep) ==
    IF parts = <<>> THEN <<>>
    ELSE IF Len(parts) = 1 THEN parts[1]
    ELSE parts[1] \o sep \o Join(Tail(parts), sep)

\* ", ".join(m["name"] for m in items)
JoinNames(items) == Join([i \in 1..Len(items) |-> items[i].name], <<",", " ">>)

\* ", ".join(f"{m['name']} (R$ {m['value']:,})" for m in items)
JoinNamesValues(items) ==
    Join([i \in 1..Len(items) |->
            items[i].name \o <<" ","(","R","$"," ">> \o FormatThousands(items[i].value) \o <<")">>],
         <<",", " ">>)

\* combined = f"{title} {body}".strip()
Combined(ttl, bdy) == Strip(ttl \o <<" ">> \o bdy)

\* the return of "if above:"
Pass1Lead(abv) ==
    <<TRUE,
      <<"M","e","n","t","i","o","n","s"," ","R","o","l","i","m","o","n","s","-","l","i","s","t","e","d"," ","i","t","e","m","(","s",")",":"," ">>
        \o JoinNames(abv),
      abv>>

\* mutant: the below-threshold return hands the items on
Pass1NotLead_KeepsItems(blw) ==
    <<FALSE, JoinNamesValues(blw), blw>>

\* the return of "if below:"
Pass1NotLead(blw) ==
    <<FALSE,
      <<"I","t","e","m","(","s",")"," ","f","o","u","n","d"," ","b","u","t"," ","b","e","l","o","w"," ","R","$"," ">>
        \o FormatThousands(MIN_VALUE_THRESHOLD)
        \o <<" ","t","h","r","e","s","h","o","l","d",":"," ">>
        \o JoinNamesValues(blw),
      <<>>>>

(***************************************************************************)
(* Pass 2: the classifier's reply, parsed and cross-referenced             *)
(***************************************************************************)
\* the loop over the reply's lines: verdict, reason, gemini_items_raw
RECURSIVE ParseLines(_, _, _)
ParseLines(lines, i, f) ==
    IF i > Len(lines) THEN f
    ELSE LET line == lines[i]
             line_lower == Lower(Strip(line))
         IN  IF StartsWith(line_lower, <<"v","e","r","d","i","c","t",":">>)
             THEN ParseLines(lines, i + 1,
                      [f EXCEPT !.verdict = Contains(<<"y","e","s">>, AfterColon(line_lower))])
             ELSE IF StartsWith(line_lower, <<"r","e","a","s","o","n",":">>)
             THEN ParseLines(lines, i + 1,
                      [f EXCEPT !.reason = Strip(AfterColon(Strip(line)))])
             ELSE IF StartsWith(line_lower, <<"i","t","e","m","s",":">>)
             THEN ParseLines(lines, i + 1,
                      [f EXCEPT !.gemini_items_raw = Strip(AfterColon(Strip(line)))])
             ELSE ParseLines(lines, i + 1, f)

ParseReply(txt) ==
    ParseLines(SplitSep(Strip(txt), "\n"), 1,
               [verdict |-> FALSE, reason |-> <<>>, gemini_items_raw |-> <<>>])

\* [n.strip() for n in gemini_items_raw.split(",") if n.strip()]
RECURSIVE StripNonEmpty(_)
StripNonEmpty(parts) ==
    IF parts = <<>> THEN <<>>
    ELSE (IF Strip(parts[1]) # <<>> THEN <<Strip(parts[1])>> ELSE <<>>)
         \o StripNonEmpty(Tail(parts))

GeminiItemNames(gemini_items_raw) ==
    IF gemini_items_raw # <<>> /\ Lower(gemini_items_raw) # <<"n","o","n","e">>
    THEN StripNonEmpty(SplitSep(gemini_items_raw, ","))
    ELSE <<>>

\* mutant: the cross-reference counts every item of positive value as above
AboveInPass2_AnyPositive(value) == value > 0

\* mutant: the cross-reference compares as Pass 1 does
AboveInPass2_AtOrAbove(value) == value >= MIN_VALUE_THRESHOLD

\* value > MIN_VALUE_THRESHOLD of the cross-reference
AboveInPass2(value) == value > MIN_VALUE_THRESHOLD

\* the loop over gemini_item_names: matched_above, matched_below
RECURSIVE CrossLoop(_, _, _, _, _)
CrossLoop(item_names, names, acronyms, i, m) ==
    IF i > Len(item_names) THEN m
    ELSE LET match == match_single_item(item_names[i], names, acronyms)
         IN  IF match # None
             THEN LET item_id == match[1]
                      item_data == match[2]
                      value == rolimons_value(item_data)
                      item_info == [id |-> item_id, name |-> item_data.name,
                                    acronym |-> item_data.acronym, value |-> value]
                  IN  IF AboveInPass2(value)
                      THEN CrossLoop(item_names, names, acronyms, i + 1,
                               [m EXCEPT !.matched_above = Append(@, item_info)])
                      ELSE CrossLoop(item_names, names, acronyms, i + 1,
                               [m EXCEPT !.matched_below = Append(@, item_info)])
             ELSE CrossLoop(item_names, names, acronyms, i + 1, m)

\* mutant: a yes without a confirmed item is not trusted
CrossReference_NoTrust(f, names, acronyms) ==
    IF ~f.verdict THEN <<FALSE, f.reason, <<>>>>
    ELSE LET gemini_item_names == GeminiItemNames(f.gemini_items_raw)
             m == CrossLoop(gemini_item_names, names, acronyms, 1,
                            [matched_above |-> <<>>, matched_below |-> <<>>])
         IN  IF gemini_item_names # <<>>
                /\ (m.matched_above # <<>> \/ m.matched_below # <<>>)
                /\ m.matched_above = <<>>
             THEN <<FALSE,
                    <<"I","t","e","m","(","s",")"," ","i","d","e","n","t","i","f","i","e","d"," ","b","y"," ","A","I"," ","b","u","t"," ","a","t"," ","o","r"," ","b","e","l","o","w"," ","R","$"," ">>
                      \o FormatThousands(MIN_VALUE_THRESHOLD)
                      \o <<" ","t","h","r","e","s","h","o","l","d",":"," ">>
                      \o JoinNamesValues(m.matched_below),
                    <<>>>>
             ELSE IF gemini_item_names # <<>> /\ m.matched_above # <<>>
             THEN LET sorted == SortByValueDesc(m.matched_above)
                  IN  <<TRUE,
                        f.reason
                          \o <<" ","(","C","o","n","f","i","r","m","e","d"," ","i","t","e","m","(","s",")",":"," ">>
                          \o JoinNames(sorted) \o <<")">>,
                        sorted>>
             ELSE <<FALSE, f.reason, <<>>>>

\* what follows the parse: "if not verdict" down to the last return
CrossReference(f, names, acronyms) ==
    IF ~f.verdict THEN <<FALSE, f.reason, <<>>>>
    ELSE LET gemini_item_names == GeminiItemNames(f.gemini_items_raw)
             m == CrossLoop(gemini_item_names, names, acronyms, 1,
                            [matched_above |-> <<>>, matched_below |-> <<>>])
         IN  IF gemini_item_names # <<>>
                /\ (m.matched_above # <<>> \/ m.matched_below # <<>>)
                /\ m.matched_above = <<>>
             THEN <<FALSE,
                    <<"I","t","e","m","(","s",")"," ","i","d","e","n","t","i","f","i","e","d"," ","b","y"," ","A","I"," ","b","u","t"," ","a","t"," ","o","r"," ","b","e","l","o","w"," ","R","$"," ">>
                      \o FormatThousands(MIN_VALUE_THRESHOLD)
                      \o <<" ","t","h","r","e","s","h","o","l","d",":"," ">>
                      \o JoinNamesValues(m.matched_below),
                    <<>>>>
             ELSE IF gemini_item_names # <<>> /\ m.matched_above # <<>>
             THEN LET sorted == SortByValueDesc(m.matched_above)
                  IN  <<TRUE,
                        f.reason
                          \o <<" ","(","C","o","n","f","i","r","m","e","d"," ","i","t","e","m","(","s",")",":"," ">>
                          \o JoinNames(sorted) \o <<")">>,
                        sorted>>
             ELSE <<f.verdict, f.reason, <<>>>>

\* A call of client.models.generate_content ends in one of three ways: it raises
\* ("raise"), it returns a response whose .text is None, so that .strip() raises
\* ("no_text"), or it returns a response with a text ("text").
\* try: ... except Exception: return False, "", []
\* The value is the returned tuple, or RAISED for an exception left uncaught.
\* mutant: the handler catches the call's own error, not the AttributeError of a
\* response without text
ClassifierTry_NarrowExcept(rsp) ==
    IF rsp.kind = "raise" THEN <<"except", None>>
    ELSE IF rsp.kind = "no_text" THEN <<"uncaught", None>>
    ELSE <<"text", Strip(rsp.text)>>

ClassifierTry(rsp) ==
    IF rsp.kind \in {"raise", "no_text"}
    THEN <<"except", None>>
    ELSE <<"text", Strip(rsp.text)>>

Pass2Return(rsp, names, acronyms) ==
    LET t == ClassifierTry(rsp)
    IN  IF t[1] = "except" THEN <<FALSE, <<>>, <<>>>>
        ELSE IF t[1] = "text" THEN CrossReference(ParseReply(t[2]), names, acronyms)
        ELSE RAISED

(***************************************************************************)
(* Inputs: catalog snapshots, thresholds, post texts, classifier replies   *)
(***************************************************************************)
\* longest catalog snapshot drawn
MaxCatalog == 2

\* catalog entries (item_id, item_data), in the order of one full snapshot
FullCatalog == <<
    <<1, [name |-> <<"D","o","m","i","n","o"," ","C","r","o","w","n">>,
          acronym |-> <<"D","C">>, rap |-> 9000000, value |-> 24000000]>>,
    <<2, [name |-> <<"B","i","g","h","e","a","d">>,
          acronym |-> <<"B","H">>, rap |-> 5000, value |-> -1]>>,
    <<3, [name |-> <<"R","e","d"," ","H","a","t">>,
          acronym |-> <<"R","H","A","T">>, rap |-> 40000, value |-> 100000]>>,
    <<4, [name |-> <<"D","o","m","i","n","u","s">>,
          acronym |-> <<"D">>, rap |-> 30000000, value |-> -1]>>,
    <<5, [name |-> <<"R","e","d","-","H","a","t">>,
          acronym |-> <<"r","h","a","t">>, rap |-> 5000, value |-> -1]>>,
    <<6, [name |-> <<"Z","e","d"," ","C","a","p">>,
          acronym |-> <<"Z","C">>, rap |-> 700, value |-> 0]>>>>

\* the same snapshot iterated the other way round
ReversedCatalog == [i \in 1..Len(FullCatalog) |-> FullCatalog[Len(FullCatalog) + 1 - i]]

EntryPool == Range(FullCatalog)

\* ordered snapshots with pairwise distinct item ids (the keys of the catalog dict)
RECURSIVE SnapshotsOfLen(_)
SnapshotsOfLen(n) ==
    IF n = 0 THEN {<<>>}
    ELSE {Append(db, e) : db \in SnapshotsOfLen(n - 1), e \in EntryPool}

Snapshots ==
    {db \in UNION {SnapshotsOfLen(n) : n \in 0..MaxCatalog} :
        \A i, j \in 1..Len(db) : i # j => db[i][1] # db[j][1]}

\* MIN_VALUE_THRESHOLD = int(os.environ.get("MIN_VALUE_THRESHOLD", "100000"))
DefaultThreshold == 100000

Thresholds == {0, DefaultThreshold}

Titles == {
    <<>>,
    <<"D","o","m","i","n","o"," ","C","r","o","w","n">>,
    <<"m","y"," ","R","e","d"," ","H","a","t","RSQUO","s"," ","B","H">>,
    <<"B","i","g","h","e","a","d"," ","b","h">>,
    <<"D","o","m","i","n","u","s"," ","r","h","a","t"," ","D","C"," ","D">>,
    <<"Z","e","d"," ","C","a","p"," ","Z","C">>,
    <<"R","e","d","-","H","a","t">>,
    <<"o","l","d"," ","a","c","c","o","u","n","t">>,
    <<"R","e","d"," ","H","a","t"," ","R","H","A","T">>}

\* body is (post.selftext or "").strip()
Bodies == {
    <<>>,
    <<"Z","e","d"," ","C","a","p">>,
    <<"B","H">>}

\* the outcomes of one call of client.models.generate_content
Responses ==
    {[kind |-> "raise"], [kind |-> "no_text"]} \cup
    {[kind |-> "text", text |-> r] : r \in {
    <<"V","E","R","D","I","C","T",":"," ","y","e","s","\n","R","E","A","S","O","N",":"," ","o","k","\n","I","T","E","M","S",":"," ","n","o","n","e">>,
    <<"V","E","R","D","I","C","T",":"," ","n","o","\n","R","E","A","S","O","N",":"," ","o","k","\n","I","T","E","M","S",":"," ","D","o","m","i","n","o"," ","C","r","o","w","n">>,
    <<"v","e","r","d","i","c","t",":"," ","Y","E","S","\n","I","T","E","M","S",":"," ","B","i","g","h","e","a","d",","," ","R","e","d"," ","H","a","t">>,
    <<"V","E","R","D","I","C","T",":"," ","y","e","s","\n","R","E","A","S","O","N",":"," ","o","k","\n","I","T","E","M","S",":"," ","D","o","m","i","n","o"," ","C",","," ","d","c">>,
    <<>>,
    <<"y","e","s">>,
    <<"V","e","r","d","i","c","t"," ",":"," ","y","e","s","\n","R","e","a","s","o","n",":"," ","o","k">>,
    <<"V","E","R","D","I","C","T",":"," ","y","e","s","\n","R","E","A","S","O","N",":"," ","o","k","\n","I","T","E","M","S",":"," ","N","o","t","h","i","n","g">>,
    <<"V","E","R","D","I","C","T",":"," ","y","e","s","\n","R","E","A","S","O","N",":"," ","o","k","\n","I","T","E","M","S",":"," ","N","o","n","e">>,
    <<"V","E","R","D","I","C","T",":"," ","y","e","s","\n","R","E","A","S","O","N",":"," ","o","k","\n","I","T","E","M","S",":"," ","R","e","d"," ","H","a","t",","," ","r","h","a","t">>,
    <<"V","E","R","D","I","C","T",":"," ","y","e","s","\n","R","E","A","S","O","N",":"," ","o","k","\n","I","T","E","M","S",":"," ",",">>,
    <<"R","E","A","S","O","N",":"," ","o","k","\n","I","T","E","M","S",":"," ","D","o","m","i","n","o"," ","C","r","o","w","n">>,
    <<"V","E","R","D","I","C","T",":"," ","y","e","s","\r","\n","R","E","A","S","O","N",":"," ","o","k","\r","\n","I","T","E","M","S",":"," ","d","c","\f",",","\r","\n">>}}

\* longest list of detected items drawn
MaxMentions == 3

\* detected item names, as parse_gemini_response hands them over
MentionNames == {
    <<"D","o","m","i","n","o"," ","C","r","o","w","n">>,
    <<"D","o","m","i","n","o"," ","C">>,
    <<"d","c">>,
    <<"R","e","d"," ","H","a","t">>,
    <<"r","h","a","t">>,
    <<"B","i","g","h","e","a","d">>,
    <<"N","o","t","h","i","n","g">>}

RECURSIVE MentionsOfLen(_)
MentionsOfLen(n) ==
    IF n = 0 THEN {<<>>}
    ELSE {Append(ms, [name |-> nm, value |-> 0]) :
             ms \in MentionsOfLen(n - 1), nm \in MentionNames}

MentionLists == UNION {MentionsOfLen(n) : n \in 0..MaxMentions}

(***************************************************************************)
(* screen_text_post as a state machine                                     *)
(***************************************************************************)
IdleScan == /\ text = <<>> /\ scan_pc = "idle" /\ scan = ScanLocals

IdleBatch == /\ detected_items = <<>> /\ batch_pc = "idle" /\ results = <<>>

IdleMatch == /\ detected = <<>> /\ match_pc = "idle" /\ matched = None

IdleNorm == /\ norm_in = <<>> /\ norm_pc = "idle" /\ norm_out = <<>> /\ norm_again = <<>>

IdleMonitor ==
    /\ once = FALSE /\ scan_last = 0 /\ mon_pc = "idle" /\ mon_phase = "idle" /\ sub_i = 0
    /\ feed = <<>> /\ seen_post_ids = {} /\ cycles = 0 /\ processed = <<>> /\ alerts = <<>>
    /\ fetched = {}

IdleScreen ==
    /\ title = <<>> /\ body = <<>> /\ pc = "idle" /\ above = <<>> /\ below = <<>>
    /\ classifier_calls = 0 /\ response = None /\ result = None

\* the catalog is fetched and both lookup tables are built before any post is screened
InitCatalog ==
    /\ MIN_VALUE_THRESHOLD \in Thresholds
    /\ items_db \in Snapshots
    /\ name_lookup = build_lookup_tables(items_db)[1]
    /\ acronym_lookup = build_lookup_tables(items_db)[2]

Init ==
    /\ InitCatalog
    /\ title \in Titles
    /\ body \in Bodies
    /\ pc = "START"
    /\ above = <<>>
    /\ below = <<>>
    /\ classifier_calls = 0
    /\ response = None
    /\ result = None
    /\ IdleScan
    /\ IdleBatch
    /\ IdleMatch
    /\ IdleNorm
    /\ IdleMonitor

catalog_vars == <<MIN_VALUE_THRESHOLD, items_db, name_lookup, acronym_lookup>>
scan_vars == <<text, scan_pc, scan>>
batch_vars == <<detected_items, batch_pc, results>>
match_vars == <<detected, match_pc, matched>>
norm_vars == <<norm_in, norm_pc, norm_out, norm_again>>
monitor_vars == <<once, scan_last, mon_pc, mon_phase, sub_i, feed, seen_post_ids, cycles,
                  processed, alerts, fetched>>

\* Pass 1: above, below = find_mentioned_items(combined, name_lookup, acronym_lookup)
Pass1Scan ==
    /\ pc = "START"
    /\ pc' = "PASS1"
    /\ above' = find_mentioned_items(Combined(title, body), name_lookup, acronym_lookup)[1]
    /\ below' = find_mentioned_items(Combined(title, body), name_lookup, acronym_lookup)[2]
    /\ UNCHANGED <<catalog_vars, title, body, classifier_calls, response, result,
                   scan_vars, batch_vars, match_vars, norm_vars, monitor_vars>>

\* if above: return True, ...
ReturnPass1Lead ==
    /\ pc = "PASS1"
    /\ above # <<>>
    /\ result' = Pass1Lead(above)
    /\ pc' = "LEAD"
    /\ UNCHANGED <<catalog_vars, title, body, above, below, classifier_calls, response,
                   scan_vars, batch_vars, match_vars, norm_vars, monitor_vars>>

\* if below: return False, ...
ReturnPass1NotLead ==
    /\ pc = "PASS1"
    /\ above = <<>>
    /\ below # <<>>
    /\ result' = Pass1NotLead(below)
    /\ pc' = "NOT_LEAD"
    /\ UNCHANGED <<catalog_vars, title, body, above, below, classifier_calls, response,
                   scan_vars, batch_vars, match_vars, norm_vars, monitor_vars>>

\* mutant: Pass 2 is entered whenever nothing is above the threshold
EnterPass2_IgnoresBelow ==
    /\ pc = "PASS1"
    /\ above = <<>>
    /\ pc' = "PASS2"
    /\ UNCHANGED <<catalog_vars, title, body, above, below, classifier_calls, response,
                   result, scan_vars, batch_vars, match_vars, norm_vars, monitor_vars>>

\* neither: fall through to Pass 2; client = _get_gemini_client() is outside the try
\* of the classifier call, so genai.Client(...) raising leaves screen_text_post as an
\* exception before any classifier call
EnterPass2 ==
    /\ pc = "PASS1"
    /\ above = <<>>
    /\ below = <<>>
    /\ pc' \in {"PASS2", "RAISED"}
    /\ UNCHANGED <<catalog_vars, title, body, above, below, classifier_calls, response,
                   result, scan_vars, batch_vars, match_vars, norm_vars, monitor_vars>>

\* Pass 2: one call of the classifier, then the parse and the cross-reference
Pass2 ==
    /\ pc = "PASS2"
    /\ \E rsp \in Responses :
         \E r \in {Pass2Return(rsp, name_lookup, acronym_lookup)} :
             /\ classifier_calls' = classifier_calls + 1
             /\ response' = rsp
             /\ IF r = RAISED
                THEN /\ pc' = "RAISED"
                     /\ result' = None
                ELSE /\ pc' = (IF r[1] THEN "LEAD" ELSE "NOT_LEAD")
                     /\ result' = r
    /\ UNCHANGED <<catalog_vars, title, body, above, below, scan_vars, batch_vars, match_vars,
                   norm_vars, monitor_vars>>

Next ==
    \/ Pass1Scan
    \/ ReturnPass1Lead
    \/ ReturnPass1NotLead
    \/ EnterPass2
    \/ Pass2

Spec == Init /\ [][Next]_vars

(***************************************************************************)
(* find_mentioned_items, phase by phase                                    *)
(***************************************************************************)
\* the texts screen_text_post hands to the scan
ScanTexts == {Combined(t, b) : t \in Titles, b \in Bodies}

screen_vars == <<title, body, pc, above, below, classifier_calls, response, result>>

InitScan ==
    /\ InitCatalog
    /\ text \in ScanTexts
    /\ scan_pc = "names"
    /\ scan = ScanLocals
    /\ IdleScreen
    /\ IdleBatch
    /\ IdleMatch
    /\ IdleNorm
    /\ IdleMonitor

\* the first loop: every normalized catalog name against the normalized text
NameScan ==
    /\ scan_pc = "names"
    /\ scan' = NameScanLoop(normalize_name(text), name_lookup, 1, scan)
    /\ scan_pc' = "acronyms"
    /\ UNCHANGED <<catalog_vars, screen_vars, text, batch_vars, match_vars, norm_vars,
                   monitor_vars>>

\* the second loop: every catalog acronym against the words of the text
AcronymScan ==
    /\ scan_pc = "acronyms"
    /\ scan' = AcronymScanLoop(text, acronym_lookup, 1, scan)
    /\ scan_pc' = "sort"
    /\ UNCHANGED <<catalog_vars, screen_vars, text, batch_vars, match_vars, norm_vars,
                   monitor_vars>>

\* both sorts and the return
SortAndReturn ==
    /\ scan_pc = "sort"
    /\ scan' = SortBuckets(scan)
    /\ scan_pc' = "done"
    /\ UNCHANGED <<catalog_vars, screen_vars, text, batch_vars, match_vars, norm_vars,
                   monitor_vars>>

NextScan ==
    \/ NameScan
    \/ AcronymScan
    \/ SortAndReturn

SpecScan == InitScan /\ [][NextScan]_vars

(***************************************************************************)
(* match_items_rolimons_only                                               *)
(***************************************************************************)
InitBatch ==
    /\ MIN_VALUE_THRESHOLD \in Thresholds
    /\ items_db \in {FullCatalog, ReversedCatalog}
    /\ name_lookup = build_lookup_tables(items_db)[1]
    /\ acronym_lookup = build_lookup_tables(items_db)[2]
    /\ detected_items \in MentionLists
    /\ batch_pc = "loop"
    /\ results = <<>>
    /\ IdleScreen
    /\ IdleScan
    /\ IdleMatch
    /\ IdleNorm
    /\ IdleMonitor

\* the loop over detected_items, the sort and the return
MatchBatch ==
    /\ batch_pc = "loop"
    /\ results' = match_items_rolimons_only(detected_items, name_lookup, acronym_lookup)
    /\ batch_pc' = "done"
    /\ UNCHANGED <<catalog_vars, screen_vars, scan_vars, detected_items, match_vars, norm_vars,
                   monitor_vars>>

NextBatch == MatchBatch

SpecBatch == InitBatch /\ [][NextBatch]_vars

(***************************************************************************)
(* match_single_item, tier by tier                                         *)
(***************************************************************************)
\* a snapshot whose names are prefixes of one another and whose acronyms meet names
PrefixCatalog == <<
    <<11, [name |-> <<"D","o","m","i","n","o"," ","C","r","o","w","n">>,
           acronym |-> <<"D","C">>, rap |-> 9000000, value |-> 24000000]>>,
    <<12, [name |-> <<"D","o","m","i","n","o"," ","C","l","o","w","n">>,
           acronym |-> <<>>, rap |-> 100, value |-> -1]>>,
    <<13, [name |-> <<"D","o","m","i","n","o"," ","C","r","o","w","n"," ","R","o","y","a","l","e">>,
           acronym |-> <<"D","C","R">>, rap |-> 500000, value |-> -1]>>,
    <<14, [name |-> <<"B","H">>,
           acronym |-> <<"X">>, rap |-> 300, value |-> -1]>>,
    <<15, [name |-> <<"B","H"," ","B","i","g"," ","H","a","t">>,
           acronym |-> <<"B","H">>, rap |-> 2000, value |-> -1]>>,
    <<16, [name |-> <<"R","e","d"," ","H","a","t"," ","C","l","a","s","s","i","c">>,
           acronym |-> <<"R","H","C">>, rap |-> 150000, value |-> -1]>>,
    <<17, [name |-> <<"R","e","d"," ","H","a","t"," ","C","a","p">>,
           acronym |-> <<"R","e","d"," ","H","a","t"," ","C","l">>, rap |-> 90000, value |-> 120000]>>,
    <<18, [name |-> <<"S","p","a","r","k","l","e","t","i","m","e"," ","F","e","d","o","r","a">>,
           acronym |-> <<"S","T","F">>, rap |-> 800000, value |-> -1]>>,
    <<19, [name |-> <<"D","o","m","i","n","o"," ","C","l","o","a","k"," ","R","o","y","a","l","e">>,
           acronym |-> <<>>, rap |-> 100000, value |-> -1]>>>>

PrefixCatalogReversed ==
    [i \in 1..Len(PrefixCatalog) |-> PrefixCatalog[Len(PrefixCatalog) + 1 - i]]

MatchCatalogs == {FullCatalog, ReversedCatalog, PrefixCatalog, PrefixCatalogReversed}

\* detected names: whole, truncated, padded, punctuated
DetectedNames == {
    <<"D","o","m","i","n","o"," ","C","r","o","w","n">>,
    <<"D","o","m","i","n","o"," ","C">>,
    <<"D","o","m","i","n","o"," ","C","l">>,
    <<"D","o","m","i","n","o"," ","C","r","o","w","n"," ","R">>,
    <<"D","o","m","i","n","o">>,
    <<"R","e","d"," ","H">>,
    <<"R","e","d"," ","H","a","t">>,
    <<"B","H">>,
    <<"d","c">>,
    <<" ","D","C"," ">>,
    <<"R","e","d"," ","H","a","t"," ","C","l">>,
    <<"S","p","a","r","k","l","e","t","i","m","e">>,
    <<"N","o","t","h","i","n","g">>,
    <<"D","o","m","i","n","o"," ","C","x">>,
    <<"d","o","m","i","n","o","-","c">>,
    <<"R","e","d"," ","H","a","t","RSQUO","s">>,
    <<"d","c","\r">>,
    <<"","d","c","">>,
    <<"R","e","d","","H","a","t","","">>,
    <<"D","o","m","i","n","o","\f","C","r","o","w","n">>}

InitMatch ==
    /\ MIN_VALUE_THRESHOLD \in Thresholds
    /\ items_db \in MatchCatalogs
    /\ name_lookup = build_lookup_tables(items_db)[1]
    /\ acronym_lookup = build_lookup_tables(items_db)[2]
    /\ detected \in DetectedNames
    /\ match_pc = "name"
    /\ matched = None
    /\ IdleScreen
    /\ IdleScan
    /\ IdleBatch
    /\ IdleNorm
    /\ IdleMonitor

\* mutant: the exact-name tier is passed over
MatchName_NeverHits ==
    /\ match_pc = "name"
    /\ match_pc' = "acronym"
    /\ UNCHANGED <<catalog_vars, screen_vars, scan_vars, batch_vars, detected, matched, norm_vars,
                   monitor_vars>>

\* 1. Exact normalised name
MatchName ==
    /\ match_pc = "name"
    /\ LET det_norm == normalize_name(detected)
       IN  IF DictHas(name_lookup, det_norm)
           THEN /\ matched' = DictGet(name_lookup, det_norm)
                /\ match_pc' = "done"
           ELSE /\ matched' = matched
                /\ match_pc' = "acronym"
    /\ UNCHANGED <<catalog_vars, screen_vars, scan_vars, batch_vars, detected, norm_vars,
                   monitor_vars>>

\* 2. Exact acronym
MatchAcronym ==
    /\ match_pc = "acronym"
    /\ LET det_lower == Lower(Strip(detected))
       IN  IF DictHas(acronym_lookup, det_lower)
           THEN /\ matched' = DictGet(acronym_lookup, det_lower)
                /\ match_pc' = "done"
           ELSE /\ matched' = matched
                /\ match_pc' = "prefix"
    /\ UNCHANGED <<catalog_vars, screen_vars, scan_vars, batch_vars, detected, norm_vars,
                   monitor_vars>>

\* 3. Prefix matched, and the final return None
MatchPrefix ==
    /\ match_pc = "prefix"
    /\ LET det_norm == normalize_name(detected)
       IN  matched' = IF PrefixGate(det_norm)
                    THEN PrefixLoop(det_norm, name_lookup, 1, None, 0)
                    ELSE None
    /\ match_pc' = "done"
    /\ UNCHANGED <<catalog_vars, screen_vars, scan_vars, batch_vars, detected, norm_vars,
                   monitor_vars>>

NextMatch ==
    \/ MatchName
    \/ MatchAcronym
    \/ MatchPrefix

SpecMatch == InitMatch /\ [][NextMatch]_vars

(***************************************************************************)
(* normalize_name on every short string over an alphabet                   *)
(***************************************************************************)
\* longest string drawn
MaxNameLen == 4

\* letters of both cases, a digit, the three apostrophes, punctuation, whitespace
Alphabet == {"S", "s", "7", "'", "RSQUO", "LSQUO", "-", " ", "\r"}

RECURSIVE StringsOfLen(_)
StringsOfLen(n) ==
    IF n = 0 THEN {<<>>}
    ELSE {Append(str, c) : str \in StringsOfLen(n - 1), c \in Alphabet}

Strings == UNION {StringsOfLen(n) : n \in 0..MaxNameLen}

\* normalize_name reads no catalog: an empty one, and the default threshold
InitNorm ==
    /\ MIN_VALUE_THRESHOLD = DefaultThreshold
    /\ items_db = <<>>
    /\ name_lookup = build_lookup_tables(items_db)[1]
    /\ acronym_lookup = build_lookup_tables(items_db)[2]
    /\ norm_in \in Strings
    /\ norm_pc = "call"
    /\ norm_out = <<>>
    /\ norm_again = <<>>
    /\ IdleScreen
    /\ IdleScan
    /\ IdleBatch
    /\ IdleMatch
    /\ IdleMonitor

\* normalize_name(name)
Normalize ==
    /\ norm_pc = "call"
    /\ norm_out' = normalize_name(norm_in)
    /\ norm_pc' = "once"
    /\ UNCHANGED <<catalog_vars, screen_vars, scan_vars, batch_vars, match_vars,
                   norm_in, norm_again, monitor_vars>>

\* normalize_name applied to its own result
NormalizeAgain ==
    /\ norm_pc = "once"
    /\ norm_again' = normalize_name(norm_out)
    /\ norm_pc' = "twice"
    /\ UNCHANGED <<catalog_vars, screen_vars, scan_vars, batch_vars, match_vars,
                   norm_in, norm_out, monitor_vars>>

NextNorm ==
    \/ Normalize
    \/ NormalizeAgain

SpecNorm == InitNorm /\ [][NextNorm]_vars

(***************************************************************************)
(* run_monitor (src/monitor.py)                                            *)
(***************************************************************************)
SUBREDDIT_NAMES == <<"RobloxTrading", "crosstradingroblox", "RobloxLimiteds">>

MAX_POSTS_PER_CHECK == 15

\* most passes of the poll loop begun
MaxCycles == 2

\* --scan-last N
ScanLastArgs == {0, 1}

\* the posts Reddit may list: sub is the index of the post's subreddit; kind is
\* "excluded" (is_excluded), "image" (get_image_urls_from_post is non-empty),
\* "text" (no image, is_potential_text_lead) or "noise" (no image, no lead keyword)
PostPool == {
    [id |-> 1, sub |-> 1, kind |-> "text", images |-> 0],
    [id |-> 2, sub |-> 1, kind |-> "image", images |-> 2],
    [id |-> 3, sub |-> 2, kind |-> "excluded", images |-> 0],
    [id |-> 4, sub |-> 3, kind |-> "noise", images |-> 0]}

RECURSIVE ListingsOfLen(_, _)
ListingsOfLen(posts, n) ==
    IF n = 0 THEN {<<>>}
    ELSE {Append(l, q) : l \in ListingsOfLen(posts, n - 1), q \in posts}

\* subreddit.new(limit=limit): at most limit posts of the subreddit, none twice
Listings(sub, limit) ==
    LET posts == {q \in PostPool : q.sub = sub}
        longest == IF limit < Cardinality(posts) THEN limit ELSE Cardinality(posts)
    IN  {l \in UNION {ListingsOfLen(posts, n) : n \in 0..longest} :
            \A i, j \in 1..Len(l) : i # j => l[i] # l[j]}

\* mutant: _process_post does not mark the post
MarkSeen_Forgets(seen, post_id) == seen

\* seen_post_ids.add(post.id), the first statement of _process_post
MarkSeen(seen, post_id) == seen \cup {post_id}

\* for idx, img_url in enumerate(image_urls): from image idx on, with sent alert
\* requests out already. process_image returns True after send_discord_embed (hit),
\* returns False or raises an Exception before the webhook request (caught, next
\* image), raises an Exception after the webhook request has gone out (caught, next
\* image), or is left by a KeyboardInterrupt, which except Exception does not catch.
RECURSIVE ImageLoop(_, _, _)
ImageLoop(idx, n, sent) ==
    IF idx > n THEN {[end |-> "skip", sent |-> sent]}
    ELSE {[end |-> "hit", sent |-> sent + 1]}
         \cup {[end |-> "interrupt", sent |-> sent + k] : k \in {0, 1}}
         \cup ImageLoop(idx + 1, n, sent)
         \cup ImageLoop(idx + 1, n, sent + 1)

\* the text branch: screen_text_post returns no lead (skip) or raises before any
\* alert; on a lead send_discord_text_lead returns (lead), or raises or is
\* interrupted before or after the webhook request has gone out
TextOutcomes ==
    {[end |-> "skip", sent |-> 0], [end |-> "lead", sent |-> 1]}
    \cup {[end |-> e, sent |-> k] : e \in {"raise", "interrupt"}, k \in {0, 1}}

\* how _process_post ends for a post, and how many alert requests went out
ProcessOutcomes(post) ==
    IF post.kind = "image" THEN ImageLoop(1, post.images, 0) ELSE TextOutcomes

\* a catalog entry whose acronym is null
NullAcronymEntry ==
    <<7, [name |-> <<"Z","e","d"," ","C","a","p">>,
          acronym |-> Null, rap |-> 700, value |-> 0]>>

\* a catalog entry whose name is null
NullNameEntry == <<8, [name |-> Null, acronym |-> <<"A">>, rap |-> 1, value |-> 1]>>

GoodSnapshots == {SubSeq(FullCatalog, 1, 2), SubSeq(FullCatalog, 3, 4)}

\* snapshots on which build_lookup_tables raises: after it has put two names and one
\* acronym (null acronym), after it has put one name and one acronym (null name)
BadSnapshots == {<<FullCatalog[5], NullAcronymEntry, FullCatalog[1]>>,
                 <<FullCatalog[3], NullNameEntry>>}

InitMonitor ==
    /\ MIN_VALUE_THRESHOLD = DefaultThreshold
    /\ items_db \in GoodSnapshots
    /\ name_lookup = build_lookup_tables(items_db)[1]
    /\ acronym_lookup = build_lookup_tables(items_db)[2]
    /\ once \in BOOLEAN
    /\ scan_last \in ScanLastArgs
    /\ mon_pc = "start"
    /\ mon_phase = "start"
    /\ sub_i = 0
    /\ feed = <<>>
    /\ seen_post_ids = {}
    /\ cycles = 0
    /\ processed = <<>>
    /\ alerts = <<>>
    /\ fetched = {items_db}
    /\ IdleScreen
    /\ IdleScan
    /\ IdleBatch
    /\ IdleMatch
    /\ IdleNorm

other_vars == <<screen_vars, scan_vars, batch_vars, match_vars, norm_vars>>

\* where an exception raised in a loop goes: the poll loop catches it, sleeps 30 s and
\* continues with the next pass; outside the poll loop it leaves run_monitor
AfterException == IF mon_phase = "poll" THEN "top" ELSE "raised"

\* where a KeyboardInterrupt goes: the try of the poll loop catches it and breaks;
\* anywhere else (start-up, scan, seeding, the sleeps between two passes, the
\* `if once:` block after the try) it leaves run_monitor
AfterInterrupt ==
    IF mon_phase = "poll" /\ mon_pc \notin {"top", "once_break"} THEN "exited" ELSE "raised"

\* if scan_last > 0: ... else: ...
Startup ==
    /\ mon_pc = "start"
    /\ mon_phase' = (IF scan_last > 0 THEN "scan" ELSE "seed")
    /\ sub_i' = 1
    /\ mon_pc' = "list"
    /\ UNCHANGED <<catalog_vars, other_vars, once, scan_last, feed, seen_post_ids, cycles,
                   processed, alerts, fetched>>

\* for post in subreddit.new(limit=...): the listing arrives, or the request raises
ListSubreddit ==
    /\ mon_pc = "list"
    /\ \/ /\ mon_pc' = AfterException
          /\ feed' = <<>>
       \/ /\ feed' \in Listings(sub_i, IF mon_phase = "scan" THEN scan_last
                                        ELSE MAX_POSTS_PER_CHECK)
          /\ mon_pc' = "posts"
    /\ UNCHANGED <<catalog_vars, other_vars, once, scan_last, mon_phase, sub_i,
                   seen_post_ids, cycles, processed, alerts, fetched>>

\* seeding: seen_post_ids.add(post.id)
SeedPost ==
    /\ mon_pc = "posts"
    /\ mon_phase = "seed"
    /\ feed # <<>>
    /\ seen_post_ids' = seen_post_ids \cup {Head(feed).id}
    /\ feed' = Tail(feed)
    /\ UNCHANGED <<catalog_vars, other_vars, once, scan_last, mon_pc, mon_phase, sub_i,
                   cycles, processed, alerts, fetched>>

\* if post.id in seen_post_ids: continue
SkipSeenPost ==
    /\ mon_pc = "posts"
    /\ mon_phase \in {"scan", "poll"}
    /\ feed # <<>>
    /\ Head(feed).id \in seen_post_ids
    /\ feed' = Tail(feed)
    /\ UNCHANGED <<catalog_vars, other_vars, once, scan_last, mon_pc, mon_phase, sub_i,
                   seen_post_ids, cycles, processed, alerts, fetched>>

\* the quick filter: an excluded post, or a text-only post without a lead keyword
FilterPost ==
    /\ mon_pc = "posts"
    /\ mon_phase \in {"scan", "poll"}
    /\ feed # <<>>
    /\ Head(feed).id \notin seen_post_ids
    /\ Head(feed).kind \in {"excluded", "noise"}
    /\ seen_post_ids' = seen_post_ids \cup {Head(feed).id}
    /\ feed' = Tail(feed)
    /\ UNCHANGED <<catalog_vars, other_vars, once, scan_last, mon_pc, mon_phase, sub_i,
                   cycles, processed, alerts, fetched>>

\* _process_post(post, name_lookup, acronym_lookup, seen_post_ids, ...)
ProcessPost ==
    /\ mon_pc = "posts"
    /\ mon_phase \in {"scan", "poll"}
    /\ feed # <<>>
    /\ Head(feed).id \notin seen_post_ids
    /\ Head(feed).kind \in {"image", "text"}
    /\ seen_post_ids' = MarkSeen(seen_post_ids, Head(feed).id)
    /\ processed' = Append(processed, Head(feed).id)
    /\ \E outcome \in ProcessOutcomes(Head(feed)) :
         /\ alerts' = alerts \o [k \in 1..outcome.sent |-> Head(feed).id]
         /\ IF outcome.end = "raise"
            THEN /\ mon_pc' = AfterException
                 /\ feed' = <<>>
            ELSE IF outcome.end = "interrupt"
            THEN /\ mon_pc' = AfterInterrupt
                 /\ feed' = <<>>
            ELSE /\ mon_pc' = mon_pc
                 /\ feed' = Tail(feed)
    /\ UNCHANGED <<catalog_vars, other_vars, once, scan_last, mon_phase, sub_i, cycles,
                   fetched>>

\* the listing is exhausted: the next subreddit, or the end of the loop over them;
\* after a scan `if once: return`, after a poll pass the end of the try
EndListing ==
    /\ mon_pc = "posts"
    /\ feed = <<>>
    /\ IF sub_i < Len(SUBREDDIT_NAMES)
       THEN /\ sub_i' = sub_i + 1
            /\ mon_pc' = "list"
       ELSE /\ sub_i' = sub_i
            /\ mon_pc' = (IF mon_phase = "scan" /\ once THEN "exited"
                          ELSE IF mon_phase = "poll" /\ once THEN "once_break"
                          ELSE "top")
    /\ UNCHANGED <<catalog_vars, other_vars, once, scan_last, mon_phase, feed,
                   seen_post_ids, cycles, processed, alerts, fetched>>

\* while True: try:
BeginPoll ==
    /\ mon_pc = "top"
    /\ cycles < MaxCycles
    /\ cycles' = cycles + 1
    /\ mon_phase' = "poll"
    /\ mon_pc' = "refresh"
    /\ UNCHANGED <<catalog_vars, other_vars, once, scan_last, sub_i, feed, seen_post_ids,
                   processed, alerts, fetched>>

\* the refresh is not due yet
SkipRefresh ==
    /\ mon_pc = "refresh"
    /\ sub_i' = 1
    /\ mon_pc' = "list"
    /\ UNCHANGED <<catalog_vars, other_vars, once, scan_last, mon_phase, feed,
                   seen_post_ids, cycles, processed, alerts, fetched>>

\* the refresh is due: items_db = fetch_item_database() raises (caught, the cached
\* data stay), or assigns the snapshot it returns
RefreshCatalog ==
    /\ mon_pc = "refresh"
    /\ \/ /\ UNCHANGED <<items_db, fetched>>
          /\ sub_i' = 1
          /\ mon_pc' = "list"
       \/ /\ \E db \in GoodSnapshots \cup BadSnapshots :
                /\ items_db' = db
                /\ fetched' = fetched \cup {db}
          /\ sub_i' = sub_i
          /\ mon_pc' = "build"
    /\ UNCHANGED <<MIN_VALUE_THRESHOLD, name_lookup, acronym_lookup, other_vars, once,
                   scan_last, mon_phase, feed, seen_post_ids, cycles, processed, alerts>>

\* name_lookup, acronym_lookup = build_lookup_tables(items_db): the build returns and
\* both are assigned, or it raises (caught) and both stay
BuildTables ==
    /\ mon_pc = "build"
    /\ \E tables \in {RefreshTables(items_db, name_lookup, acronym_lookup)} :
         /\ name_lookup' = tables[1]
         /\ acronym_lookup' = tables[2]
    /\ sub_i' = 1
    /\ mon_pc' = "list"
    /\ UNCHANGED <<MIN_VALUE_THRESHOLD, items_db, other_vars, once, scan_last, mon_phase,
                   feed, seen_post_ids, cycles, processed, alerts, fetched>>

\* if once: print(...); break, after the try/except of the poll loop
OnceBreak ==
    /\ mon_pc = "once_break"
    /\ mon_pc' = "exited"
    /\ UNCHANGED <<catalog_vars, other_vars, once, scan_last, mon_phase, sub_i, feed,
                   seen_post_ids, cycles, processed, alerts, fetched>>

\* Ctrl-C outside _process_post: except KeyboardInterrupt: break inside the try of
\* the poll loop, an uncaught KeyboardInterrupt anywhere else
Interrupt ==
    /\ mon_pc \in {"start", "refresh", "build", "list", "posts", "top", "once_break"}
    /\ mon_pc' = AfterInterrupt
    /\ UNCHANGED <<catalog_vars, other_vars, once, scan_last, mon_phase, sub_i, feed,
                   seen_post_ids, cycles, processed, alerts, fetched>>

NextMonitor ==
    \/ Startup
    \/ ListSubreddit
    \/ SeedPost
    \/ SkipSeenPost
    \/ FilterPost
    \/ ProcessPost
    \/ EndListing
    \/ BeginPoll
    \/ SkipRefresh
    \/ RefreshCatalog
    \/ BuildTables
    \/ OnceBreak
    \/ Interrupt

SpecMonitor == InitMonitor /\ [][NextMonitor]_vars

(***************************************************************************)
(* Properties                                                              *)
(***************************************************************************)
Returned == pc \in {"LEAD", "NOT_LEAD", "RAISED"}

Entries == 1..Len(items_db)

EntryId(i) == items_db[i][1]

EntryData(i) == items_db[i][2]

EntryValue(i) == rolimons_value(EntryData(i))

EntryNorm(i) == normalize_name(EntryData(i).name)

EntryAcr(i) == Lower(Strip(EntryData(i).acronym))

PostText == Combined(title, body)

Ids(list) == {list[k].id : k \in 1..Len(list)}

\* the canonical name has two or more words and is found in the normalized text
NamedIn(i, txt) ==
    /\ Len(Split(EntryNorm(i))) >= 2
    /\ Contains(EntryNorm(i), normalize_name(txt))

\* no later catalog entry normalizes to the same name (the name map holds entry i)
HoldsName(i) == \A j \in Entries : j > i => EntryNorm(j) # EntryNorm(i)

\* the entry is named in the text, whatever its word count, or its acronym is a word of it
LooselyMentioned(i, txt) ==
    \/ Contains(EntryNorm(i), normalize_name(txt))
    \/ EntryAcr(i) \in Range(Split(Lower(txt)))

\* C1 as stated: a title that contains the canonical name of a catalog item whose
\* resolved value is at or above the threshold is a LEAD, and the classifier is not called.
C1_AsStated ==
    \A i \in Entries :
        (Contains(EntryData(i).name, title) /\ EntryValue(i) >= MIN_VALUE_THRESHOLD)
        => /\ pc # "PASS2"
           /\ Returned => (pc = "LEAD" /\ classifier_calls = 0)

\* (Each formula below is written "conclusion \/ ~premise", the premise last.)
\* C1 (amended): a title that contains, after normalization, the canonical name of a
\* catalog item whose normalized name has two or more words, which the name map holds
\* (no later entry normalizes to the same name) and whose resolved value is at or above
\* the threshold, is a LEAD that lists the item, and the classifier is never called.
C1_AboveNameIsLead ==
    \A i \in Entries :
        \/ /\ pc \notin {"PASS2", "NOT_LEAD", "RAISED"}
           /\ classifier_calls = 0
           /\ pc = "LEAD" => (result[1] = TRUE /\ EntryId(i) \in Ids(result[3]))
        \/ ~(/\ EntryValue(i) >= MIN_VALUE_THRESHOLD
             /\ NamedIn(i, title)
             /\ HoldsName(i))

C1_Witness ==
    /\ pc = "LEAD"
    /\ classifier_calls = 0
    /\ \E i \in Entries :
         /\ NamedIn(i, title)
         /\ HoldsName(i)
         /\ EntryValue(i) = MIN_VALUE_THRESHOLD
         /\ MIN_VALUE_THRESHOLD > 0

\* C2 as stated: when the only catalog item mentioned in the post is one whose resolved
\* value is below the threshold, the decision is NOT_LEAD with no matched items and the
\* classifier is not called.
C2_AsStated ==
    \A i \in Entries :
        (/\ Contains(EntryData(i).name, PostText)
         /\ EntryValue(i) < MIN_VALUE_THRESHOLD
         /\ \A j \in Entries : j # i => ~LooselyMentioned(j, PostText))
        => /\ pc # "PASS2"
           /\ Returned => (pc = "NOT_LEAD" /\ result[3] = <<>> /\ classifier_calls = 0)

\* C2 (amended): when the only catalog item mentioned in the post is one whose
\* normalized name has two or more words and whose resolved value is positive and below
\* the threshold, the decision is NOT_LEAD with no matched items and the classifier is
\* never called.
C2_BelowNameIsNotLead ==
    \A i \in Entries :
        \/ /\ pc \notin {"PASS2", "LEAD", "RAISED"}
           /\ classifier_calls = 0
           /\ pc = "NOT_LEAD" => (result[1] = FALSE /\ result[3] = <<>>)
        \/ ~(/\ EntryValue(i) > 0
             /\ EntryValue(i) < MIN_VALUE_THRESHOLD
             /\ NamedIn(i, PostText)
             /\ \A j \in Entries : j # i => ~LooselyMentioned(j, PostText))

C2_Witness ==
    /\ pc = "NOT_LEAD"
    /\ classifier_calls = 0
    /\ Len(items_db) >= 2
    /\ \E i \in Entries :
         /\ NamedIn(i, PostText)
         /\ EntryValue(i) > 0
         /\ EntryValue(i) < MIN_VALUE_THRESHOLD
         /\ \A j \in Entries : j # i => ~LooselyMentioned(j, PostText)

(***************************************************************************)
(* Pass 2 properties                                                       *)
(***************************************************************************)
HasText == response # None /\ response.kind = "text"

\* the lines of the reply, as the parse sees them
ReplyLines == SplitSep(Strip(Strip(response.text)), "\n")

IsVerdictLine(line) == StartsWith(Lower(Strip(line)), <<"v","e","r","d","i","c","t",":">>)

SaysYes(line) == Contains(<<"y","e","s">>, AfterColon(Lower(Strip(line))))

\* the last verdict line of the reply says yes
VerdictYes ==
    /\ HasText
    /\ \E k \in 1..Len(ReplyLines) :
         /\ IsVerdictLine(ReplyLines[k])
         /\ SaysYes(ReplyLines[k])
         /\ \A n \in (k + 1)..Len(ReplyLines) : ~IsVerdictLine(ReplyLines[n])

NoVerdictLine ==
    /\ HasText
    /\ \A k \in 1..Len(ReplyLines) : ~IsVerdictLine(ReplyLines[k])

\* the candidate names of the reply's items field
Candidates == GeminiItemNames(ParseReply(response.text).gemini_items_raw)

Resolves(nm) == match_single_item(nm, name_lookup, acronym_lookup) # None

ResolvedValue(nm) == rolimons_value(match_single_item(nm, name_lookup, acronym_lookup)[2])

\* C3: when the classifier's verdict is yes and at least one of its candidate names
\* resolves through match_single_item, but no resolved item is worth strictly more than
\* the threshold (a value equal to the threshold is not above), the decision is
\* NOT_LEAD with no matched items: the positive verdict is overridden.
C3_OverrideIsNotLead ==
    \/ /\ pc = "NOT_LEAD"
       /\ result[1] = FALSE
       /\ result[3] = <<>>
    \/ ~(/\ Returned
         /\ VerdictYes
         /\ \E nm \in Range(Candidates) : Resolves(nm)
         /\ \A nm \in Range(Candidates) :
              Resolves(nm) => ResolvedValue(nm) <= MIN_VALUE_THRESHOLD)

C3_Witness ==
    /\ pc = "NOT_LEAD"
    /\ VerdictYes
    /\ MIN_VALUE_THRESHOLD > 0
    /\ \E nm \in Range(Candidates) :
         Resolves(nm) /\ ResolvedValue(nm) = MIN_VALUE_THRESHOLD
    /\ \A nm \in Range(Candidates) :
         Resolves(nm) => ResolvedValue(nm) <= MIN_VALUE_THRESHOLD

\* the classifier call failed: it raised, or its response carries no text or an empty one
ClassifierFailed ==
    /\ response # None
    /\ \/ response.kind \in {"raise", "no_text"}
       \/ response.kind = "text" /\ Strip(response.text) = <<>>

\* C4: whenever the classifier call fails (it raises, or returns no usable text),
\* screen_text_post does not raise to its caller: it returns NOT_LEAD with an empty
\* reason and no matched items.
C4_ClassifierFailureIsNotLead ==
    ClassifierFailed => (pc = "NOT_LEAD" /\ result = <<FALSE, <<>>, <<>>>>)

C4_Witness ==
    /\ response # None
    /\ response.kind = "no_text"
    /\ pc = "NOT_LEAD"
    /\ result = <<FALSE, <<>>, <<>>>>

\* the three malformed inputs of C5
Malformed == items_db = <<>> \/ (title = <<>> /\ body = <<>>) \/ NoVerdictLine

\* C5: with an empty catalog, or an empty title and body, or a reply without a
\* parseable verdict line, and whatever the classifier replies, screen_text_post
\* returns NOT_LEAD: it never returns LEAD and it does not raise.
C5_AsStated ==
    (Returned /\ Malformed) => pc = "NOT_LEAD"

\* the reason and the items field the parse takes from the reply
ParsedReason == ParseReply(response.text).reason

ItemsField == ParseReply(response.text).gemini_items_raw

\* C18: when the classifier's verdict is yes and its items field is empty or "none"
\* in any case, or none of its candidate names resolves to a catalog entry, the
\* decision is LEAD with the parsed classifier reason and no matched items.
C18_TrustFallback ==
    \/ ~Returned
    \/ ~HasText
    \/ /\ pc = "LEAD"
       /\ result[3] = <<>>
       /\ result = <<TRUE, ParsedReason, <<>>>>
    \/ ~(/\ VerdictYes
         /\ \/ ItemsField = <<>>
            \/ Lower(ItemsField) = <<"n", "o", "n", "e">>
            \/ \A nm \in Range(Candidates) : ~Resolves(nm))

\* the classifier names an item the catalog does not hold
C18_Witness ==
    /\ pc = "LEAD"
    /\ HasText
    /\ VerdictYes
    /\ items_db # <<>>
    /\ Candidates # <<>>
    /\ \A nm \in Range(Candidates) : ~Resolves(nm)
    /\ result = <<TRUE, <<"o", "k">>, <<>>>>

\* the decision screen_text_post returned: (is_lead, reason, matched_items)
Decided == pc \in {"LEAD", "NOT_LEAD"}

\* C21: every returned decision that is not a lead has no matched items, and every
\* matched item of a lead is worth at least the threshold, on every path (Pass 1
\* above, Pass 1 below, classifier failure, verdict no, override, confirmed lead,
\* trust fallback).
C21_MatchedItemsShape ==
    \/ ~Decided
    \/ /\ result[1] = (pc = "LEAD")
       /\ \/ result[3] = <<>>
          \/ /\ result[1]
             /\ \A k \in 1..Len(result[3]) :
                    /\ result[3][k].value >= MIN_VALUE_THRESHOLD
                    /\ \E i \in Entries :
                         /\ items_db[i][1] = result[3][k].id
                         /\ rolimons_value(items_db[i][2]) = result[3][k].value

\* a lead confirmed in Pass 2 while the catalog also holds an item worth less than
\* the threshold
C21_Witness ==
    /\ pc = "LEAD"
    /\ classifier_calls = 1
    /\ MIN_VALUE_THRESHOLD = DefaultThreshold
    /\ result[3] # <<>>
    /\ \A k \in 1..Len(result[3]) : result[3][k].value > MIN_VALUE_THRESHOLD
    /\ \E i \in Entries : rolimons_value(items_db[i][2]) \in 1..(MIN_VALUE_THRESHOLD - 1)

\* C22 as stated: the matched items of a decision screen_text_post returns never
\* hold two entries with the same id, in Pass 2 as well, when several candidate names
\* of the classifier (a full name and its acronym, a repeated name) resolve to the
\* same catalog entry.
C22_DistinctIds ==
    \/ ~Decided
    \/ \A k, n \in 1..Len(result[3]) : result[3][k].id = result[3][n].id => k = n

(***************************************************************************)
(* The state machine of screen_text_post                                   *)
(***************************************************************************)
Transitions == {
    <<"START", "PASS1">>,
    <<"PASS1", "LEAD">>, <<"PASS1", "NOT_LEAD">>, <<"PASS1", "PASS2">>,
    <<"PASS2", "LEAD">>, <<"PASS2", "NOT_LEAD">>}

C6_Step ==
    /\ pc' # pc => <<pc, pc'>> \in Transitions
    /\ pc \in {"LEAD", "NOT_LEAD"} => (pc' = pc /\ result' = result)
    /\ (pc # "PASS2" /\ pc' = "PASS2") => (above = <<>> /\ below = <<>>)
    /\ classifier_calls' # classifier_calls
         => (pc = "PASS2" /\ classifier_calls = 0 /\ classifier_calls' = 1)

C6_State ==
    /\ pc \in {"START", "PASS1", "PASS2", "LEAD", "NOT_LEAD"}
    /\ pc \in {"LEAD", "NOT_LEAD"} <=> result # None
    /\ result # None => (result[1] <=> pc = "LEAD")
    /\ \/ pc \in {"LEAD", "NOT_LEAD"}
       \/ pc = "START"
       \/ ENABLED (ReturnPass1Lead \/ ReturnPass1NotLead \/ EnterPass2 \/ Pass2)

\* C6: every call of screen_text_post goes START -> PASS1 -> (LEAD | NOT_LEAD | PASS2)
\* -> (LEAD | NOT_LEAD): it is in one of these states, only a terminal state carries a
\* result, every non-terminal state has a next step, Pass 2 is entered only from PASS1
\* with both buckets empty, the classifier is called at most once and only in PASS2,
\* and no step leaves a terminal state.
C6_StateMachine == []C6_State /\ [][C6_Step]_vars

C6_Witness ==
    /\ pc \in {"LEAD", "NOT_LEAD"}
    /\ classifier_calls = 1
    /\ above = <<>>
    /\ below = <<>>
    /\ result # None

(***************************************************************************)
(* find_mentioned_items properties (SpecScan)                              *)
(***************************************************************************)
\* how often an id occurs in above ++ below
Occurrences(st, id) ==
    Cardinality({k \in 1..Len(st.above) : st.above[k].id = id})
    + Cardinality({k \in 1..Len(st.below) : st.below[k].id = id})

C7_Buckets(zero_rule_applies) ==
    scan_pc = "done" =>
        /\ Ids(scan.above) \cap Ids(scan.below) = {}
        /\ \A i \in Entries :
             EntryId(i) \in scan.seen_ids =>
                /\ EntryValue(i) >= MIN_VALUE_THRESHOLD
                     => (EntryId(i) \in Ids(scan.above) /\ EntryId(i) \notin Ids(scan.below))
                /\ (EntryValue(i) > 0 /\ EntryValue(i) < MIN_VALUE_THRESHOLD)
                     => (EntryId(i) \in Ids(scan.below) /\ EntryId(i) \notin Ids(scan.above))
                /\ (EntryValue(i) = 0 /\ zero_rule_applies)
                     => (EntryId(i) \notin Ids(scan.above) /\ EntryId(i) \notin Ids(scan.below))

\* C7 as stated: for every text, catalog and threshold, a matched item worth the
\* threshold or more is in above only, one worth more than 0 and less than the threshold
\* is in below only, one worth 0 is in neither bucket, and the buckets share no id.
C7_AsStated == C7_Buckets(TRUE)

\* C7 (amended): a matched item worth the threshold or more is in above only, one
\* worth more than 0 and less than the threshold is in below only, one worth 0 is in
\* neither bucket when the threshold is positive (with a threshold of 0 or less it is
\* worth the threshold or more and is in above), and the buckets share no id.
C7_BucketsByValue == C7_Buckets(MIN_VALUE_THRESHOLD > 0)

C7_Witness ==
    /\ scan_pc = "done"
    /\ MIN_VALUE_THRESHOLD > 0
    /\ \E i, j \in Entries :
         /\ EntryId(i) \in scan.seen_ids
         /\ EntryValue(i) = 0
         /\ EntryId(j) \in Ids(scan.above) \cup Ids(scan.below)

\* the step of the acronym loop: which ids it adds to seen_ids
C8_Step ==
    scan_pc = "acronyms" =>
        \A k \in 1..Len(acronym_lookup) :
            LET acr == acronym_lookup[k][1]
                id == acronym_lookup[k][2][1]
                by_acronym == id \in scan'.seen_ids /\ id \notin scan.seen_ids
            IN  /\ (acr \in ACRONYM_BLACKLIST \/ Len(acr) < 2) => ~by_acronym
                /\ (Len(acr) \in {2, 3} /\ by_acronym) => Upper(acr) \in Range(Split(text))
                /\ Len(acr) > 3 =>
                     /\ by_acronym => acr \in Range(Split(Lower(text)))
                     /\ acr \in Range(Split(Lower(text))) => id \in scan'.seen_ids

\* C8: the acronym scan never matches an item through an acronym that is blacklisted
\* or shorter than 2 characters; it matches through an acronym of 2 or 3 characters only
\* if the acronym in upper case is a whitespace-delimited word of the original text; and
\* for an acronym longer than 3 characters, the item is matched through it only if the
\* acronym is a word of the lowercased text, and whenever it is such a word the item is
\* matched (by this scan, or already by the name scan).
C8_AcronymAdmission == [][C8_Step]_vars

C8_Witness ==
    /\ scan_pc = "sort"
    /\ \E k, n \in 1..Len(acronym_lookup) :
         /\ Len(acronym_lookup[k][1]) = 2
         /\ Upper(acronym_lookup[k][1]) \in Range(Split(text))
         /\ acronym_lookup[k][2][1] \in scan.seen_ids
         /\ Len(acronym_lookup[n][1]) > 3
         /\ acronym_lookup[n][1] \in Range(Split(Lower(text)))
         /\ acronym_lookup[n][2][1] \in scan.seen_ids

C9_NoDuplicate ==
    \A i \in Entries : Occurrences(scan, EntryId(i)) <= 1

C9_Step ==
    scan_pc = "acronyms" =>
        \A id \in scan.seen_ids : Occurrences(scan', id) = Occurrences(scan, id)

\* C9: no id occurs more than once in above ++ below, and the acronym scan never adds
\* an item the name scan has already resolved (one discarded for a value of 0 included).
C9_Dedup == []C9_NoDuplicate /\ [][C9_Step]_vars

\* an item found by its name whose acronym is admitted too
C9_Witness ==
    /\ scan_pc = "done"
    /\ MIN_VALUE_THRESHOLD > 0
    /\ \E i \in Entries :
         /\ NamedIn(i, text)
         /\ EntryValue(i) > 0
         /\ Len(EntryAcr(i)) > 3
         /\ EntryAcr(i) \in Range(Split(Lower(text)))
         /\ DictHas(acronym_lookup, EntryAcr(i))
         /\ DictGet(acronym_lookup, EntryAcr(i))[1] = EntryId(i)
         /\ Occurrences(scan, EntryId(i)) = 1

(***************************************************************************)
(* match_items_rolimons_only properties (SpecBatch)                        *)
(***************************************************************************)
MatchOf(k) == match_single_item(detected_items[k].name, name_lookup, acronym_lookup)

\* the mentions that resolve to the catalog entry id
MentionsOf(id) ==
    {k \in 1..Len(detected_items) : MatchOf(k) # None /\ MatchOf(k)[1] = id}

\* C10: the result never holds two entries with the same id, and the entry kept for
\* an id carries the detected_as of the first mention, in input order, that resolved
\* to it.
C10_BatchDedup ==
    batch_pc = "done" =>
        /\ \A a, b \in 1..Len(results) : a # b => results[a].id # results[b].id
        /\ \A a \in 1..Len(results) :
             /\ MentionsOf(results[a].id) # {}
             /\ \A k \in MentionsOf(results[a].id) :
                  (\A n \in MentionsOf(results[a].id) : k <= n)
                  => results[a].detected_as = detected_items[k].name

\* two mentions with different names resolve to one entry, which is in the result
C10_Witness ==
    /\ batch_pc = "done"
    /\ \E k, n \in 1..Len(detected_items) :
         /\ k < n
         /\ detected_items[k].name # detected_items[n].name
         /\ MatchOf(k) # None
         /\ MatchOf(n) # None
         /\ MatchOf(k)[1] = MatchOf(n)[1]
         /\ \E a \in 1..Len(results) :
              /\ results[a].id = MatchOf(k)[1]
              /\ results[a].detected_as = detected_items[k].name

\* the first mention, in input order, that resolves to the catalog entry id
FirstMention(id) == CHOOSE k \in MentionsOf(id) : \A n \in MentionsOf(id) : k <= n

\* C11: the result is sorted by value in descending order, and two results of equal
\* value stand in the order of their first matching mentions in the input.
C11_SortedStable ==
    batch_pc = "done" =>
        \A a, b \in 1..Len(results) :
            a < b =>
                /\ results[a].value >= results[b].value
                /\ results[a].value = results[b].value
                     => FirstMention(results[a].id) < FirstMention(results[b].id)

\* two results of equal value behind one of greater value that was mentioned last
C11_Witness ==
    /\ batch_pc = "done"
    /\ Len(results) = 3
    /\ results[1].value > results[2].value
    /\ results[2].value = results[3].value
    /\ results[2].id # results[3].id
    /\ FirstMention(results[1].id) > FirstMention(results[3].id)
(***************************************************************************)
(* match_single_item properties (SpecMatch)                                *)
(***************************************************************************)
DetNorm == normalize_name(detected)

DetLower == Lower(Strip(detected))

\* some catalog entry normalizes to the normalized detected name
NameHit == \E i \in Entries : EntryNorm(i) = DetNorm

\* some catalog entry has the lowercased, trimmed detected name as its acronym
AcronymHit == \E i \in Entries : EntryAcr(i) # <<>> /\ EntryAcr(i) = DetLower

\* no later catalog entry has the same acronym (the acronym map holds entry i)
HoldsAcronym(i) == \A j \in Entries : j > i => EntryAcr(j) # EntryAcr(i)

ShortCandidate == Len(Split(DetNorm)) < 2 \/ Len(DetNorm) < 8

\* the catalog entries whose normalized name starts with the normalized detected name
PrefixCandidates == {i \in Entries : StartsWith(EntryNorm(i), DetNorm)}

C12_Step == (match_pc = "prefix" /\ ShortCandidate) => matched' = None

C12_State ==
    (match_pc = "done" /\ matched # None /\ ShortCandidate) => (NameHit \/ AcronymHit)

\* C12: for a detected name whose normalized form has fewer than 2 words or fewer
\* than 8 characters, the prefix tier never returns an entry; such a name yields a
\* result only if it hits the exact-name or the exact-acronym tier, otherwise none.
C12_PrefixGated == []C12_State /\ [][C12_Step]_vars

\* a name of two words and fewer than 8 characters that some catalog name starts with
C12_Witness ==
    /\ match_pc = "done"
    /\ matched = None
    /\ Len(Split(DetNorm)) = 2
    /\ Len(DetNorm) < 8
    /\ PrefixCandidates # {}
\* the place of entry i's normalized name among the keys of the name map
KeyPlace(i) ==
    CHOOSE j \in Entries :
        /\ EntryNorm(j) = EntryNorm(i)
        /\ \A k \in Entries : EntryNorm(k) = EntryNorm(i) => j <= k

\* C15: when the prefix tier is attempted (both exact tiers miss and the normalized
\* candidate has 2 or more words and 8 or more characters), the returned entry is the
\* one the name map holds under the longest key that starts with the normalized
\* candidate (of several keys of that length, the first in the map's order), and none
\* is returned when no key starts with it.
C15_LongestPrefix ==
    (match_pc = "done" /\ ~ShortCandidate /\ ~NameHit /\ ~AcronymHit) =>
        IF PrefixCandidates = {} THEN matched = None
        ELSE \E i \in PrefixCandidates :
                /\ HoldsName(i)
                /\ matched = items_db[i]
                /\ \A j \in PrefixCandidates :
                     \/ Len(EntryNorm(j)) < Len(EntryNorm(i))
                     \/ /\ Len(EntryNorm(j)) = Len(EntryNorm(i))
                        /\ KeyPlace(i) <= KeyPlace(j)

\* three names of two lengths start with the candidate, the two longest equally long
C15_Witness ==
    /\ match_pc = "done"
    /\ ~ShortCandidate
    /\ ~NameHit
    /\ ~AcronymHit
    /\ matched # None
    /\ \E i, j, k \in PrefixCandidates :
         /\ matched = items_db[i]
         /\ j # i
         /\ Len(EntryNorm(j)) = Len(EntryNorm(i))
         /\ Len(EntryNorm(k)) < Len(EntryNorm(i))
         /\ KeyPlace(k) < KeyPlace(i)

MatchTransitions == {
    <<"name", "done">>, <<"name", "acronym">>,
    <<"acronym", "done">>, <<"acronym", "prefix">>,
    <<"prefix", "done">>}

C16_Step ==
    /\ match_pc' # match_pc => <<match_pc, match_pc'>> \in MatchTransitions
    /\ (match_pc' = "acronym" /\ match_pc # "acronym") => ~NameHit
    /\ (match_pc' = "prefix" /\ match_pc # "prefix") => (~NameHit /\ ~AcronymHit)

C16_State ==
    match_pc = "done" =>
        \A i \in Entries :
            /\ (EntryNorm(i) = DetNorm /\ HoldsName(i)) => matched = items_db[i]
            /\ (~NameHit /\ EntryAcr(i) # <<>> /\ EntryAcr(i) = DetLower /\ HoldsAcronym(i))
                 => matched = items_db[i]

\* C16: the tiers are consulted in order and the first hit wins: a detected name whose
\* normalized form is a key of the name map returns that key's entry, whatever the
\* acronym map or the prefix scan would give; the acronym tier is reached only after
\* the exact-name tier misses, and then an acronym hit returns the acronym's entry;
\* the prefix tier is reached only after both miss.
C16_TierOrder == []C16_State /\ [][C16_Step]_vars

\* the detected name is a name key, the acronym of another entry and the start of a
\* longer name, and the name key's entry is returned
C16_Witness ==
    /\ match_pc = "done"
    /\ \E i, j \in Entries :
         /\ i # j
         /\ EntryNorm(i) = DetNorm
         /\ EntryAcr(j) = DetLower
         /\ HoldsAcronym(j)
         /\ StartsWith(EntryNorm(j), DetNorm)
         /\ matched = items_db[i]
         /\ matched # items_db[j]

\* C19 as documented: the prefix tier matches only a detected name of 3 or more
\* words; a normalized candidate of exactly 2 words never resolves through it.
C19_AsDocumented ==
    [][(match_pc = "prefix" /\ Len(Split(DetNorm)) = 2) => matched' = None]_vars

(***************************************************************************)
(* normalize_name properties (SpecNorm)                                    *)
(***************************************************************************)
\* C13: normalize_name is idempotent and case-insensitive: normalizing its result
\* gives the result again, and a string and its lowercase normalize alike.
C13_IdempotentCaseless ==
    /\ norm_pc = "twice" => norm_again = norm_out
    /\ norm_pc # "call" => norm_out = normalize_name(Lower(norm_in))

\* an input with an uppercase letter and a run of whitespace between two words
C13_Witness ==
    /\ norm_pc = "twice"
    /\ "S" \in Range(norm_in)
    /\ Contains(<<" ", "\r">>, norm_in)
    /\ Len(Split(norm_out)) = 2
    /\ norm_again = norm_out
(***************************************************************************)
(* run_monitor properties (SpecMonitor)                                    *)
(***************************************************************************)
Tables == <<name_lookup, acronym_lookup>>

\* what build_lookup_tables gives for each snapshot the API can return
BuiltTables == [db \in GoodSnapshots \cup BadSnapshots |-> build_lookup_tables(db)]

C14_State == \E db \in fetched : BuiltTables[db] = Tables

C14_Step ==
    /\ Tables' # Tables
         => (mon_pc = "build" /\ items_db' = items_db
             /\ BuiltTables[items_db] = Tables')
    /\ mon_pc = "refresh" => Tables' = Tables
    /\ (mon_pc = "build" /\ BuiltTables[items_db] = RAISED) => Tables' = Tables

\* C14: at every point of run_monitor, and so wherever a post is matched or scanned,
\* name_lookup and acronym_lookup are the two tables build_lookup_tables gives for one
\* and the same fetched snapshot; they change only in a refresh, both at once, to the
\* tables of the snapshot just fetched; and a refresh whose fetch or build fails
\* leaves both exactly as they were.
C14_AtomicRefresh == []C14_State /\ [][C14_Step]_vars

\* a post is about to be processed while items_db holds a snapshot whose build raised
C14_Witness ==
    /\ mon_pc = "posts"
    /\ feed # <<>>
    /\ Head(feed).id \notin seen_post_ids
    /\ Head(feed).kind \in {"image", "text"}
    /\ BuiltTables[items_db] = RAISED
    /\ \E db \in fetched : db # items_db /\ BuiltTables[db] = Tables

\* C20 as documented: run_monitor with once = True and scan_last = 0 checks once and
\* exits without looping; it never starts a second poll cycle, whatever the outcome
\* of the first one (a raising Reddit, classifier or notification call included).
C20_OnceChecksOnce == (cycles <= 1) \/ ~(once /\ scan_last = 0)

\* C23 as stated: over a whole run of run_monitor (seeding or scan-last phase, then
\* any number of poll cycles, cycles aborted by an exception and retried included),
\* each post id is handed to _process_post at most once and therefore produces at
\* most one alert; a post whose processing raised after it was marked seen is never
\* processed again.
C23_AsStated ==
    /\ \A i, j \in 1..Len(processed) : processed[i] = processed[j] => i = j
    /\ \A i, j \in 1..Len(alerts) : alerts[i] = alerts[j] => i = j
    /\ Range(processed) \subseteq seen_post_ids

\* the number of alert requests that went out for a post
AlertsFor(post_id) == Cardinality({k \in 1..Len(alerts) : alerts[k] = post_id})

\* C23 (amended): over a whole run of run_monitor, each post id is handed to
\* _process_post at most once, and a post whose processing raised after it was marked
\* seen is never processed again; only processed posts alert, a text post produces at
\* most one alert and an image post at most one alert per image.
C23_ProcessedOnce ==
    /\ \A i, j \in 1..Len(processed) : processed[i] = processed[j] => i = j
    /\ Range(processed) \subseteq seen_post_ids
    /\ Range(alerts) \subseteq Range(processed)
    /\ \A q \in PostPool :
         /\ q.kind \in {"excluded", "noise"} => q.id \notin Range(processed)
         /\ AlertsFor(q.id) <= (IF q.kind = "image" THEN q.images ELSE 1)

\* a cycle retried after an exception lists again an image post that was processed
\* before and alerted once per image
C23_Witness ==
    /\ once
    /\ scan_last = 0
    /\ cycles = 2
    /\ mon_pc = "posts"
    /\ feed # <<>>
    /\ Head(feed).kind = "image"
    /\ Head(feed).id \in Range(processed)
    /\ Head(feed).id \in seen_post_ids
    /\ AlertsFor(Head(feed).id) = Head(feed).images
    /\ Head(feed).images > 1

(***************************************************************************)
(* the possessive replacement of normalize_name (SpecNorm)                 *)
(***************************************************************************)
\* normalize_name with the possessive replacement applied once
normalize_name_once(name) ==
    LET s1 == Strip(Lower(name))
        s2 == Replace(Replace(s1, <<"RSQUO">>, <<"'">>), <<"LSQUO">>, <<"'">>)
        s3 == Replace(s2, <<"'", "s">>, <<"s">>)
        s4 == SubNonAlnum(s3)
    IN  Strip(CollapseSpace(s4))

\* the name with its curly apostrophes made ASCII and its letters lowercased
Unquoted(name) == Replace(Replace(Lower(name), <<"RSQUO">>, <<"'">>), <<"LSQUO">>, <<"'">>)

\* C17 as stated: for every input string, replacing 's by s once gives the same
\* normalize result as replacing it twice, as the source does.
C17_AsStated == norm_pc # "call" => norm_out = normalize_name_once(norm_in)

\* C17 (amended): for every input string in which no s follows two or more
\* consecutive apostrophes (ASCII or curly), replacing 's by s once gives the same
\* normalize result as replacing it twice.
C17_OnePassSuffices ==
    (norm_pc # "call" /\ ~Contains(<<"'", "'", "s">>, Unquoted(norm_in)))
    => norm_out = normalize_name_once(norm_in)

\* an input with two possessives, one of them curly and uppercase
C17_Witness ==
    /\ norm_pc = "once"
    /\ Contains(<<"'", "s">>, norm_in)
    /\ Contains(<<"RSQUO", "S">>, norm_in)
    /\ ~Contains(<<"'", "'", "s">>, Unquoted(norm_in))
    /\ norm_out = <<"s", "s">>
====
